---------------------------- MODULE Spec2Model ----------------------------
(***************************************************************************)
(* Freight/distance anomaly detection of nomad-commerce-analytics:         *)
(*   - app/utils/insights.py      ols_fit (the regression helper)          *)
(*   - app/pages/03_Freight_and_Distance.py  (the page: query, guard,      *)
(*     inline OLS fit, standardised residuals, outlier flags)              *)
(*   - app/utils/db.py            the fct_freight line/order metrics       *)
(*                                                                         *)
(* Numbers.  NumPy doubles are modelled exactly: a finite value is a       *)
(* normalised rational [n, d]; NaN and +/-Inf are separate values.  The    *)
(* residual standard deviation is a square root, so sigma and the z-scores *)
(* are signed square roots of rationals (sg * sqrt(sq)).  Rounding error   *)
(* of IEEE arithmetic is not modelled.                                     *)
(***************************************************************************)
EXTENDS Integers, Sequences, FiniteSets, TLC

(***************************************************************************)
(* Program constants                                                       *)
(***************************************************************************)
\* ols_fit refuses fewer finite points than this
MinPoints == 3

\* degrees of freedom subtracted in the residual standard deviation
Ddof == 2

\* the top-N slider as first rendered
DefaultTopN == 50

\* the Earth's radius in km in the distance expression
EarthRadiusKm == 6371

(***************************************************************************)
(* Exact rational arithmetic                                               *)
(***************************************************************************)
Abs(i) == IF i < 0 THEN -i ELSE i

Sign(i) == IF i < 0 THEN -1 ELSE IF i = 0 THEN 0 ELSE 1

RECURSIVE GCD(_, _)
GCD(a, b) == IF b = 0 THEN a ELSE GCD(b, a % b)

\* the rational n/d (d # 0) in lowest terms with a positive denominator
Rat(n, d) ==
    IF d = 1 THEN [n |-> n, d |-> 1]
    ELSE LET g == GCD(Abs(n), Abs(d))
             s == IF d < 0 THEN -1 ELSE 1
         IN  [n |-> s * (n \div g), d |-> s * (d \div g)]

RInt(i) == [n |-> i, d |-> 1]

RAdd(a, b) ==
    IF a.d = b.d THEN Rat(a.n + b.n, a.d)
    ELSE LET g == GCD(a.d, b.d)
         IN  Rat(a.n * (b.d \div g) + b.n * (a.d \div g), (a.d \div g) * b.d)

RNeg(a) == [n |-> -a.n, d |-> a.d]

RSub(a, b) == RAdd(a, RNeg(b))

RMul(a, b) ==
    IF a.d = 1 /\ b.d = 1 THEN [n |-> a.n * b.n, d |-> 1]
    ELSE IF a.n = 0 \/ b.n = 0 THEN [n |-> 0, d |-> 1]
    ELSE LET g1 == GCD(Abs(a.n), b.d)
             g2 == GCD(Abs(b.n), a.d)
         IN  [n |-> (a.n \div g1) * (b.n \div g2), d |-> (a.d \div g2) * (b.d \div g1)]

\* a / b for b # 0
RDiv(a, b) == RMul(a, Rat(b.d, b.n))

RLt(a, b) == a.n * b.d < b.n * a.d

\* an/ad < bn/bd for numerators >= 0 and denominators > 0, by comparing the
\* integer parts and then the remainders (no product is formed, so the
\* comparison stays within the integers TLC has)
RECURSIVE less_by_parts(_, _, _, _)
less_by_parts(an, ad, bn, bd) ==
    IF an \div ad # bn \div bd THEN an \div ad < bn \div bd
    ELSE IF bn % bd = 0 THEN FALSE
    ELSE IF an % ad = 0 THEN TRUE
    ELSE less_by_parts(bd, bn % bd, ad, an % ad)

\* a < b for rationals of any size
RLtWide(a, b) ==
    IF a.n < 0 /\ b.n >= 0 THEN TRUE
    ELSE IF a.n >= 0 /\ b.n < 0 THEN FALSE
    ELSE IF a.n >= 0 THEN less_by_parts(a.n, a.d, b.n, b.d)
    ELSE less_by_parts(-b.n, b.d, -a.n, a.d)

RLe(a, b) == a.n * b.d <= b.n * a.d

RSq(a) == RMul(a, a)

RECURSIVE RSum(_)
RSum(s) == IF s = <<>> THEN RInt(0) ELSE RAdd(Head(s), RSum(Tail(s)))

\* np.mean of a non-empty array of finite values
RMean(s) == RDiv(RSum(s), RInt(Len(s)))

\* sum((a - c) ** 2)
SumSqDev(s, c) == RSum([i \in 1..Len(s) |-> RSq(RSub(s[i], c))])

(***************************************************************************)
(* IEEE values: finite rationals, NaN, +/-Inf; and signed square roots     *)
(***************************************************************************)
NaN == [k |-> "nan"]

Inf(s) == [k |-> "inf", sg |-> s]

\* a finite double holding the rational q
Fin(q) == [k |-> "fin", v |-> q]

\* np.isfinite
isfinite(f) == f.k = "fin"

\* the finite real sg * sqrt(sq), sq >= 0
Surd(sg, sq) == [k |-> "fin", sg |-> IF sq.n = 0 THEN 0 ELSE sg, sq |-> sq]

\* a rational seen as a signed square root
SurdOf(q) == Surd(Sign(q.n), RSq(q))

\* float comparison v > 0 (False for NaN)
GtZero(v) ==
    CASE v.k = "nan" -> FALSE
      [] v.k = "inf" -> v.sg > 0
      [] OTHER       -> v.sg > 0

\* IEEE division a / b of signed square roots (0/0 = NaN, r/0 = +/-Inf)
SDiv(a, b) ==
    CASE a.k = "nan" \/ b.k = "nan" -> NaN
      [] a.k = "inf" /\ b.k = "inf" -> NaN
      [] a.k = "inf" -> Inf(a.sg * (IF b.sg < 0 THEN -1 ELSE 1))
      [] b.k = "inf" -> Surd(0, RInt(0))
      [] b.sg = 0 /\ a.sg = 0 -> NaN
      [] b.sg = 0 -> Inf(a.sg)
      [] OTHER -> Surd(a.sg * b.sg, RDiv(a.sq, b.sq))

\* np.abs
SAbs(a) ==
    CASE a.k = "nan" -> NaN
      [] a.k = "inf" -> Inf(1)
      [] OTHER -> Surd(Abs(a.sg), a.sq)

\* float comparison a > t for a positive rational t (False for NaN)
SGtRat(a, t) ==
    CASE a.k = "nan" -> FALSE
      [] a.k = "inf" -> a.sg > 0
      [] OTHER -> a.sg > 0 /\ RLt(RSq(t), a.sq)

(***************************************************************************)
(* NumPy primitives used by both fits                                      *)
(***************************************************************************)
\* IEEE division of two finite doubles a / b (0/0 = NaN, a/0 = +/-Inf)
FDiv(a, b) ==
    IF b.n # 0 THEN Fin(RDiv(a, b))
    ELSE IF a.n = 0 THEN NaN ELSE Inf(Sign(a.n))

\* 1.0 - f
OneMinus(f) ==
    CASE f.k = "nan" -> NaN
      [] f.k = "inf" -> Inf(-f.sg)
      [] OTHER -> Fin(RSub(RInt(1), f.v))

\* variant: the variance is returned where the standard deviation is meant
\* (np.var for np.std): the square root is missing
np_std_no_sqrt(a, ddof) ==
    LET ss     == SumSqDev(a, RMean(a))
        rcount == IF Len(a) - ddof > 0 THEN Len(a) - ddof ELSE 0
        var    == FDiv(ss, RInt(rcount))
    IN  CASE var.k = "nan" -> NaN
          [] var.k = "inf" -> Inf(1)
          [] OTHER -> Surd(1, RSq(var.v))

\* variant: ddof is ignored (the population standard deviation)
np_std_population(a, ddof) ==
    LET ss  == SumSqDev(a, RMean(a))
        var == FDiv(ss, RInt(Len(a)))
    IN  CASE var.k = "nan" -> NaN
          [] var.k = "inf" -> Inf(1)
          [] OTHER -> Surd(1, var.v)

\* np.std(a, ddof): sqrt(sum((a - mean(a))**2) / max(n - ddof, 0)), a non-empty
np_std(a, ddof) ==
    LET ss     == SumSqDev(a, RMean(a))
        rcount == IF Len(a) - ddof > 0 THEN Len(a) - ddof ELSE 0
        var    == FDiv(ss, RInt(rcount))
    IN  CASE var.k = "nan" -> NaN
          [] var.k = "inf" -> Inf(1)
          [] OTHER -> Surd(1, var.v)

\* variant: the guard tests the number of rows instead of their spread
nanstd_is_zero_by_len(a) == Len(a) < 2

\* np.nanstd(a) == 0 for an array without NaN: the population variance is 0
nanstd_is_zero(a) == SumSqDev(a, RMean(a)).n = 0

\* variant: the x column is left out of the design matrix
lstsq_intercept_only(x, y) == <<RMean(y), RInt(0)>>

\* np.linalg.lstsq(np.c_[1, x], y, rcond=None)[0]: the least-squares [a, b];
\* for a rank-deficient design (all x equal to c) the minimum-norm solution
\* mean(y) / (1 + c^2) * [1, c]
lstsq(x, y) ==
    LET n   == RInt(Len(x))
        Sx  == RSum(x)
        Sy  == RSum(y)
        Sxx == RSum([i \in 1..Len(x) |-> RSq(x[i])])
        Sxy == RSum([i \in 1..Len(x) |-> RMul(x[i], y[i])])
        D   == RSub(RMul(n, Sxx), RSq(Sx))
    IN  IF D.n # 0
        THEN LET b == RDiv(RSub(RMul(n, Sxy), RMul(Sx, Sy)), D)
                 a == RDiv(RSub(Sy, RMul(b, Sx)), n)
             IN  <<a, b>>
        ELSE LET c == x[1]
                 w == RDiv(RMean(y), RAdd(RInt(1), RSq(c)))
             IN  <<w, RMul(w, c)>>

\* variant: the column of ones is missing from the design matrix
predict_without_intercept(x, beta) == [i \in 1..Len(x) |-> RMul(beta[2], x[i])]

\* X @ beta for X = np.c_[np.ones_like(x), x]
predict(x, beta) == [i \in 1..Len(x) |-> RAdd(beta[1], RMul(beta[2], x[i]))]

\* y - y_hat
subtract(y, y_hat) == [i \in 1..Len(y) |-> RSub(y[i], y_hat[i])]

\* variant: the residuals are divided by sigma whatever its value
divisor_unguarded(sigma) == sigma

\* sigma if sigma > 0 else 1.0
divisor(sigma) == IF GtZero(sigma) THEN sigma ELSE SurdOf(RInt(1))

\* resid / (sigma if sigma > 0 else 1.0)
standardize(resid, sigma) ==
    [i \in 1..Len(resid) |-> SDiv(SurdOf(resid[i]), divisor(sigma))]

(***************************************************************************)
(* app/utils/insights.py: ols_fit                                          *)
(***************************************************************************)
\* indices i of 1..Len(x) with m[i], in increasing order (boolean masking x[m])
RECURSIVE MaskIdx(_, _)
MaskIdx(m, i) ==
    IF i > Len(m) THEN <<>>
    ELSE (IF m[i] THEN <<i>> ELSE <<>>) \o MaskIdx(m, i + 1)

\* variant: the kept rows come out in reverse order
mask_select_reversed(m) ==
    LET k == MaskIdx(m, 1) IN [j \in 1..Len(k) |-> k[Len(k) + 1 - j]]

\* x[m]: the positions a boolean mask keeps, in input order
mask_select(m) == MaskIdx(m, 1)

\* m = np.isfinite(x) & np.isfinite(y)
finite_mask(x, y) == [i \in 1..Len(x) |-> isfinite(x[i]) /\ isfinite(y[i])]

\* variant: two points are accepted
too_few_off_by_one(size) == size < MinPoints - 1

\* x.size < 3
too_few(size) == size < MinPoints

\* ols_fit(x, y) for equal-length arrays of doubles
ols_fit(x, y) ==
    LET keep == mask_select(finite_mask(x, y))
        xs   == [j \in 1..Len(keep) |-> x[keep[j]].v]
        ys   == [j \in 1..Len(keep) |-> y[keep[j]].v]
    IN  IF too_few(Len(xs))
        THEN [ok |-> FALSE, error |-> "Need at least 3 finite points for OLS"]
        ELSE LET beta   == lstsq(xs, ys)
                 y_hat  == predict(xs, beta)
                 resid  == subtract(ys, y_hat)
                 ss_res == RSum([i \in 1..Len(resid) |-> RSq(resid[i])])
                 ss_tot == SumSqDev(ys, RMean(ys))
                 r2     == IF ss_tot.n > 0
                           THEN OneMinus(FDiv(ss_res, ss_tot))
                           ELSE Fin(RInt(0))
                 sigma  == np_std(resid, Ddof)
                 z      == standardize(resid, sigma)
             IN  [ok |-> TRUE, beta |-> beta, y_hat |-> y_hat,
                  resid |-> resid, r2 |-> r2, sigma |-> sigma, z |-> z]

(***************************************************************************)
(* app/utils/db.py: the fct_freight table (line and order freight %)       *)
(***************************************************************************)
\* SQL NULL in a numeric or composite column, and in a text column
NULL == [k |-> "null"]

NULL_TEXT == "NULL"

\* WHERE: the rows of r at which the condition m holds, in scan order
Where(r, m) ==
    LET keep == MaskIdx(m, 1)
    IN  [j \in 1..Len(keep) |-> r[keep[j]]]

\* order_aggs: SUM(freight_value) ... GROUP BY order_id, for one order
order_freight_total(lines, oid) ==
    RSum([i \in 1..Len(lines) |->
            IF lines[i].order_id = oid THEN lines[i].freight_value ELSE RInt(0)])

\* order_aggs: SUM(line_gross) ... GROUP BY order_id, for one order
order_gmv(lines, oid) ==
    RSum([i \in 1..Len(lines) |->
            IF lines[i].order_id = oid THEN lines[i].line_gross ELSE RInt(0)])

\* variant: the ratio is formed whatever the denominator
pct_unguarded(num, den) == FDiv(num, den)

\* CASE WHEN den > 0 THEN num / den ELSE NULL END
pct_or_null(num, den) == IF den.n > 0 THEN Fin(RDiv(num, den)) ELSE NULL

\* line_metrics: one row per with_dist row, with freight_pct_line
line_metrics(l) ==
    [order_item_id |-> l.order_item_id, order_id |-> l.order_id,
     seller_id |-> l.seller_id, product_id |-> l.product_id,
     freight_value |-> l.freight_value, line_gross |-> l.line_gross,
     freight_pct_line |-> pct_or_null(l.freight_value, l.line_gross),
     distance_km |-> l.distance_km]

\* the final SELECT: line_metrics LEFT JOIN order_aggs USING (order_id)
build_fct_freight(with_dist) ==
    [i \in 1..Len(with_dist) |->
        LET l   == line_metrics(with_dist[i])
            oft == order_freight_total(with_dist, l.order_id)
            gmv == order_gmv(with_dist, l.order_id)
        IN  [order_item_id |-> l.order_item_id, order_id |-> l.order_id,
             seller_id |-> l.seller_id, product_id |-> l.product_id,
             freight_value |-> l.freight_value, line_gross |-> l.line_gross,
             freight_pct_line |-> l.freight_pct_line,
             distance_km |-> l.distance_km,
             order_freight_total |-> oft, order_gmv |-> gmv,
             order_freight_pct |-> pct_or_null(oft, gmv)]]

(***************************************************************************)
(* app/utils/db.py: from the raw tables to with_dist (geo join, distance)  *)
(*                                                                         *)
(* Latitudes and longitudes are whole degrees on a grid where the          *)
(* expression's sines and cosines are exact (multiples of 60 and 90        *)
(* degrees); pi is taken as 355/113, nothing else is rounded.              *)
(***************************************************************************)
Pi == Rat(355, 113)

\* sin(radians(a)) for a in degrees, as a signed square root
sin_deg(a) ==
    CASE a.n = 0 -> Surd(0, RInt(0))
      [] a = RInt(30) \/ a = RInt(-30) -> Surd(Sign(a.n), Rat(1, 4))
      [] a = RInt(45) \/ a = RInt(-45) -> Surd(Sign(a.n), Rat(1, 2))
      [] a = RInt(60) \/ a = RInt(-60) -> Surd(Sign(a.n), Rat(3, 4))
      [] a = RInt(90) \/ a = RInt(-90) -> Surd(Sign(a.n), RInt(1))

\* cos(radians(a)) for a in degrees
cos_deg(a) ==
    CASE a.n = 0 -> RInt(1)
      [] a = RInt(60) \/ a = RInt(-60) -> Rat(1, 2)
      [] a = RInt(90) \/ a = RInt(-90) -> RInt(0)

\* pow(s, 2) of a signed square root
pow2(s) == s.sq

\* asin(sqrt(h)) in radians
asin_sqrt(h) ==
    CASE h = RInt(0)   -> RInt(0)
      [] h = Rat(1, 4) -> RDiv(Pi, RInt(6))
      [] h = Rat(1, 2) -> RDiv(Pi, RInt(4))
      [] h = Rat(3, 4) -> RDiv(Pi, RInt(3))
      [] h = RInt(1)   -> RDiv(Pi, RInt(2))

\* (a - b) / 2.0
half_difference(a, b) == RDiv(RSub(a, b), RInt(2))

\* variant: the seller's latitude is used for both cosines
hav_seller_cosine_twice(cust_lat, cust_lng, seller_lat, seller_lng) ==
    RAdd(pow2(sin_deg(half_difference(cust_lat, seller_lat))),
         RMul(RMul(cos_deg(seller_lat), cos_deg(seller_lat)),
              pow2(sin_deg(half_difference(cust_lng, seller_lng)))))

\* pow(sin(radians((cust_lat - seller_lat)/2.0)),2) +
\* cos(radians(seller_lat)) * cos(radians(cust_lat)) *
\* pow(sin(radians((cust_lng - seller_lng)/2.0)),2)
hav(cust_lat, cust_lng, seller_lat, seller_lng) ==
    RAdd(pow2(sin_deg(half_difference(cust_lat, seller_lat))),
         RMul(RMul(cos_deg(seller_lat), cos_deg(cust_lat)),
              pow2(sin_deg(half_difference(cust_lng, seller_lng)))))

\* 2 * asin(sqrt(h)) * 6371.0
great_circle_km(h) == RMul(RMul(RInt(2), asin_sqrt(h)), RInt(EarthRadiusKm))

\* variant: unknown coordinates give distance 0
distance_km_zero_if_unknown(cust_lat, cust_lng, seller_lat, seller_lng) ==
    IF cust_lat = NULL \/ cust_lng = NULL \/ seller_lat = NULL \/ seller_lng = NULL
    THEN Fin(RInt(0))
    ELSE Fin(great_circle_km(hav(cust_lat.v, cust_lng.v, seller_lat.v, seller_lng.v)))

\* with_dist: CASE WHEN a coordinate IS NULL THEN NULL
\*            ELSE 2 * asin(sqrt(hav)) * 6371.0 END AS distance_km
distance_km(cust_lat, cust_lng, seller_lat, seller_lng) ==
    IF cust_lat = NULL \/ cust_lng = NULL \/ seller_lat = NULL \/ seller_lng = NULL
    THEN NULL
    ELSE Fin(great_circle_km(hav(cust_lat.v, cust_lng.v, seller_lat.v, seller_lng.v)))

\* the row a LEFT JOIN supplies when no geolocation row matches
NoGeo == [zip_prefix |-> NULL_TEXT, lat |-> NULL, lng |-> NULL]

\* LEFT JOIN geos g ON zip = g.zip_prefix: every matching row, or one row of
\* NULLs
left_join_geos(geos, zip) ==
    LET hit == Where(geos, [i \in 1..Len(geos) |-> geos[i].zip_prefix = zip])
    IN  IF hit = <<>> THEN <<NoGeo>> ELSE hit

\* li: the line items of delivered orders (fct_order_items JOIN fct_orders
\* USING (order_id) WHERE o.is_delivered)
li(r) ==
    Where(r.order_items,
          [i \in 1..Len(r.order_items) |->
              \E o \in r.orders : o.order_id = r.order_items[i].order_id /\ o.is_delivered])

\* ord_cust: the customer's zip_prefix of an order
cust_zip(r, oid) == (CHOOSE o \in r.orders : o.order_id = oid).zip_prefix

\* stg_sellers: the seller's zip_prefix
seller_zip(r, sid) == (CHOOSE x \in r.sellers : x.seller_id = sid).zip_prefix

\* coords and with_dist for one line: a row for every pair of a geolocation
\* row of the customer's zip and one of the seller's zip
with_dist_of_line(r, l) ==
    LET cg == left_join_geos(r.geolocation, cust_zip(r, l.order_id))
        sg == left_join_geos(r.geolocation, seller_zip(r, l.seller_id))
    IN  [k \in 1..(Len(cg) * Len(sg)) |->
            LET c == cg[((k - 1) \div Len(sg)) + 1]
                g == sg[((k - 1) % Len(sg)) + 1]
            IN  [order_item_id |-> l.order_item_id, order_id |-> l.order_id,
                 seller_id |-> l.seller_id, product_id |-> l.product_id,
                 freight_value |-> l.freight_value, line_gross |-> l.line_gross,
                 cust_lat |-> c.lat, cust_lng |-> c.lng,
                 seller_lat |-> g.lat, seller_lng |-> g.lng,
                 distance_km |-> distance_km(c.lat, c.lng, g.lat, g.lng)]]

\* with_dist over all of li
RECURSIVE with_dist_rows(_, _)
with_dist_rows(r, lines) ==
    IF lines = <<>> THEN <<>>
    ELSE with_dist_of_line(r, Head(lines)) \o with_dist_rows(r, Tail(lines))

\* CREATE OR REPLACE TABLE fct_freight AS ... from the raw tables r
fct_freight_sql(r) == build_fct_freight(with_dist_rows(r, li(r)))

(***************************************************************************)
(* app/utils/db.py: fct_orders, fct_deliveries and mrt_kpis_daily_real     *)
(***************************************************************************)
\* a BOOLEAN value of a nullable column
Bool(b) == [k |-> "bool", v |-> b]

\* a TIMESTAMP value, counted in days
Ts(n) == [k |-> "ts", v |-> n]

\* a <= b on nullable timestamps: NULL when either side is NULL
sql_le(a, b) == IF a = NULL \/ b = NULL THEN NULL ELSE Bool(a.v <= b.v)

\* CASE WHEN c THEN 1 ELSE 0 END: a NULL condition takes the ELSE branch
one_when(c) == IF c # NULL /\ c.v THEN RInt(1) ELSE RInt(0)

\* COALESCE(SUM(col), 0) over the rows s of a group that may be empty
coalesce_sum(s) == RSum(s)

SUM_for_AVG(s) == RSum(s)

\* AVG(col) over the rows of a non-empty group
AVG(s) == RDiv(RSum(s), RInt(Len(s)))

\* items: the stg_order_items rows of one order_id
items(r, oid) ==
    Where(r.order_items, [i \in 1..Len(r.order_items) |-> r.order_items[i].order_id = oid])

\* CREATE OR REPLACE TABLE fct_orders: a row per stg_orders row, with the
\* sums over its items (0 for an order without items)
fct_orders_sql(r) ==
    { [order_id |-> o.order_id, order_date |-> o.order_date,
       delivered_customer_ts |-> o.delivered_customer_ts,
       estimated_delivery_ts |-> o.estimated_delivery_ts,
       is_delivered |-> o.is_delivered,
       gmv |-> coalesce_sum([i \in 1..Len(items(r, o.order_id)) |->
                                items(r, o.order_id)[i].line_gross]),
       freight_total |-> coalesce_sum([i \in 1..Len(items(r, o.order_id)) |->
                                          items(r, o.order_id)[i].freight_value])] :
        o \in r.orders }

\* CREATE OR REPLACE TABLE fct_deliveries: the delivered orders with
\* is_on_time, which is NULL without an estimated delivery date
fct_deliveries_sql(orders) ==
    { [order_id |-> o.order_id, order_date |-> o.order_date,
       is_on_time |-> IF o.estimated_delivery_ts = NULL THEN NULL
                      ELSE sql_le(o.delivered_customer_ts, o.estimated_delivery_ts)] :
        o \in {d \in orders : d.is_delivered} }

\* delivered d LEFT JOIN ontime o USING (order_id): order_id is unique on
\* both sides, so each delivered order gets its own fct_deliveries row
delivered_ontime(orders, deliveries) ==
    { [order_id |-> d.order_id, order_date |-> d.order_date, gmv |-> d.gmv,
       freight_total |-> d.freight_total,
       is_on_time |-> IF \E o \in deliveries : o.order_id = d.order_id
                      THEN (CHOOSE o \in deliveries : o.order_id = d.order_id).is_on_time
                      ELSE NULL] :
        d \in {x \in orders : x.is_delivered} }

\* the select list over one group g (a sequence of joined rows) of kpi_date
kpi_row(kpi_date, g) ==
    [kpi_date |-> kpi_date,
     orders_delivered |-> Len(g),
     gmv |-> RSum([i \in 1..Len(g) |-> g[i].gmv]),
     freight_total |-> RSum([i \in 1..Len(g) |-> g[i].freight_total]),
     on_time_pct |-> AVG([i \in 1..Len(g) |-> one_when(g[i].is_on_time)]),
     aov |-> IF Len(g) > 0
             THEN Fin(RDiv(RSum([i \in 1..Len(g) |-> g[i].gmv]), RInt(Len(g))))
             ELSE NULL,
     freight_pct_gmv |-> pct_or_null(RSum([i \in 1..Len(g) |-> g[i].freight_total]),
                                     RSum([i \in 1..Len(g) |-> g[i].gmv]))]

\* the rows of a set in some scan order
RECURSIVE scan(_)
scan(S) ==
    IF S = {} THEN <<>>
    ELSE LET x == CHOOSE y \in S : TRUE IN <<x>> \o scan(S \ {x})

\* GROUP BY 1 ORDER BY 1: a row per order_date among the joined rows j, by
\* ascending date
RECURSIVE group_by_date(_, _)
group_by_date(j, dates) ==
    IF dates = {} THEN <<>>
    ELSE LET d == CHOOSE a \in dates : \A b \in dates : a <= b
         IN  <<kpi_row(d, scan({x \in j : x.order_date = d}))>>
             \o group_by_date(j, dates \ {d})

\* CREATE OR REPLACE TABLE mrt_kpis_daily_real AS ... from fct_orders and
\* fct_deliveries
mrt_kpis_sql(orders, deliveries) ==
    group_by_date(delivered_ontime(orders, deliveries),
                  {d.order_date : d \in {x \in orders : x.is_delivered}})

(***************************************************************************)
(* app/pages/03_Freight_and_Distance.py: the two queries                   *)
(***************************************************************************)
\* variant: the upper bound of the range is not applied
not_null_at_least_zero(v, hi) ==
    v # NULL /\ isfinite(v) /\ RLe(RInt(0), v.v)

\* v IS NOT NULL AND v BETWEEN 0 AND hi
not_null_between(v, hi) ==
    v # NULL /\ isfinite(v) /\ RLe(RInt(0), v.v) /\ RLe(v.v, hi)

\* the line-item query
query_lines(t, max_km, max_pct) ==
    LET P(r) == /\ not_null_between(r.distance_km, max_km)
                /\ not_null_between(r.freight_pct_line, max_pct)
                /\ r.line_gross.n > 0
        rows == Where(t, [i \in 1..Len(t) |-> P(t[i])])
    IN  [i \in 1..Len(rows) |->
            [order_id |-> rows[i].order_id,
             order_item_id |-> rows[i].order_item_id,
             seller_id |-> rows[i].seller_id,
             product_id |-> rows[i].product_id,
             distance_km |-> rows[i].distance_km.v,
             freight_pct |-> rows[i].freight_pct_line.v,
             line_gross |-> Fin(rows[i].line_gross)]]

\* s with v inserted before the first element greater than v (s sorted)
RECURSIVE Insert(_, _)
Insert(s, v) ==
    IF s = <<>> THEN <<v>>
    ELSE IF RLe(v, Head(s)) THEN <<v>> \o s
    ELSE <<Head(s)>> \o Insert(Tail(s), v)

RECURSIVE Sorted(_)
Sorted(s) == IF s = <<>> THEN <<>> ELSE Insert(Sorted(Tail(s)), Head(s))

\* median(col): the middle value, or the mean of the two middle values
median(s) ==
    LET o == Sorted(s)
        n == Len(o)
    IN  IF n % 2 = 1 THEN o[(n + 1) \div 2]
        ELSE RDiv(RAdd(o[n \div 2], o[n \div 2 + 1]), RInt(2))

\* max(col)
RECURSIVE max(_)
max(s) ==
    IF Len(s) = 1 THEN s[1]
    ELSE LET m == max(Tail(s)) IN IF RLt(m, Head(s)) THEN Head(s) ELSE m

\* the order_ids of rows, each once, in order of first appearance
RECURSIVE Groups(_, _)
Groups(rows, seen) ==
    IF rows = <<>> THEN <<>>
    ELSE IF Head(rows).order_id \in seen THEN Groups(Tail(rows), seen)
    ELSE <<Head(rows).order_id>>
            \o Groups(Tail(rows), seen \cup {Head(rows).order_id})

\* the order-level query: per_line, then agg GROUP BY order_id
query_orders(t, max_km, max_pct) ==
    LET P(r) == /\ not_null_between(r.distance_km, max_km)
                /\ not_null_between(r.order_freight_pct, max_pct)
        per_line == Where(t, [i \in 1..Len(t) |-> P(t[i])])
        ids == Groups(per_line, {})
    IN  [g \in 1..Len(ids) |->
            LET mine == Where(per_line, [i \in 1..Len(per_line) |->
                                            per_line[i].order_id = ids[g]])
            IN  [order_id |-> ids[g], order_item_id |-> NULL,
                 seller_id |-> NULL_TEXT, product_id |-> NULL_TEXT,
                 distance_km |->
                    median([i \in 1..Len(mine) |-> mine[i].distance_km.v]),
                 freight_pct |->
                    max([i \in 1..Len(mine) |-> mine[i].order_freight_pct.v]),
                 line_gross |-> NULL]]

\* query_df(sql) for the level chosen in the radio button
query_df(t, w) ==
    IF w.level = "Line" THEN query_lines(t, w.max_km, w.max_pct)
    ELSE query_orders(t, w.max_km, w.max_pct)

(***************************************************************************)
(* app/pages/03_Freight_and_Distance.py: one run of the page script        *)
(***************************************************************************)
\* variant: a row exactly at the threshold is flagged too
flag_at_or_above(z, zcut) ==
    LET a == SAbs(z)
    IN  CASE a.k = "nan" -> FALSE
          [] a.k = "inf" -> TRUE
          [] OTHER -> RLe(RSq(zcut), a.sq)

\* variant: the comparison is the wrong way round
flag_below(z, zcut) ==
    LET a == SAbs(z)
    IN  CASE a.k = "nan" -> FALSE
          [] a.k = "inf" -> FALSE
          [] OTHER -> RLt(a.sq, RSq(zcut))

\* np.abs(z) > zcut
flag(z, zcut) == SGtRat(SAbs(z), zcut)

\* the inline fit of the page (lines 97-110) on the frame df
page_fit(df, x, y, zcut) ==
    LET beta      == lstsq(x, y)
        y_hat     == predict(x, beta)
        residuals == subtract(y, y_hat)
        r2        == OneMinus(FDiv(RSum([i \in 1..Len(y) |-> RSq(residuals[i])]),
                                   SumSqDev(y, RMean(y))))
        sigma     == np_std(residuals, Ddof)
        z         == standardize(residuals, sigma)
    IN  [out |-> "fit", df |-> df, beta |-> beta, y_hat |-> y_hat,
         resid |-> residuals, r2 |-> r2, sigma |-> sigma, z_resid |-> z,
         is_outlier |-> [i \in 1..Len(z) |-> flag(z[i], zcut)]]

\* variant: the rows are ranked by |z| ascending
insert_asc(s, p, a) ==
    LET RECURSIVE ins(_)
        ins(r) ==
            IF r = <<>> THEN <<p>>
            ELSE IF RLtWide(a[p].sq, a[Head(r)].sq) THEN <<p>> \o r
            ELSE <<Head(r)>> \o ins(Tail(r))
    IN  ins(s)

\* one step of the sort: position p is placed behind every position whose
\* abs_z is at least its own, so rows of equal abs_z keep the frame's order
insert_desc(s, p, a) ==
    LET RECURSIVE ins(_)
        ins(r) ==
            IF r = <<>> THEN <<p>>
            ELSE IF RLtWide(a[Head(r)].sq, a[p].sq) THEN <<p>> \o r
            ELSE <<Head(r)>> \o ins(Tail(r))
    IN  ins(s)

\* .sort_values("abs_z", ascending=False) on the rows at positions idx: the
\* positions by abs_z (a finite |z| each) descending.  No second sort key is
\* given: the order of rows of equal abs_z is a function of their positions
\* in the frame alone (here: kept), never of their ids
RECURSIVE sort_values(_, _)
sort_values(idx, a) ==
    IF idx = <<>> THEN <<>>
    ELSE insert_desc(sort_values(SubSeq(idx, 1, Len(idx) - 1), a), idx[Len(idx)], a)

\* variant: one row more than top_n is kept
head_one_more(s, n) == SubSeq(s, 1, IF Len(s) < n + 1 THEN Len(s) ELSE n + 1)

\* .head(n)
head(s, n) == SubSeq(s, 1, IF Len(s) < n THEN Len(s) ELSE n)

\* df_out: the flagged rows of df_model by |z| descending, the first top_n
\* of them, with the nine columns shown
outlier_table(m, top_n) ==
    LET flagged == mask_select(m.is_outlier)
        abs_z   == [i \in 1..Len(m.z_resid) |-> SAbs(m.z_resid[i])]
        top     == head(sort_values(flagged, abs_z), top_n)
    IN  [k \in 1..Len(top) |->
            LET i == top[k]
            IN  [order_id |-> m.df[i].order_id,
                 order_item_id |-> m.df[i].order_item_id,
                 seller_id |-> m.df[i].seller_id,
                 product_id |-> m.df[i].product_id,
                 distance_km |-> m.df[i].distance_km,
                 freight_pct |-> m.df[i].freight_pct,
                 y_hat |-> m.y_hat[i], resid |-> m.resid[i],
                 z_resid |-> m.z_resid[i]]]

\* beta[1] * 100: the slope in percentage points per km
slope_ppk(beta) == RMul(beta[2], RInt(100))

\* variant: a flat trend is reported as an increase
increases_or_flat(ppk) == ppk.n >= 0

\* slope_ppk > 0
increases(ppk) == ppk.n > 0

\* int(df_model["is_outlier"].sum())
n_out(m) == Len(mask_select(m.is_outlier))

\* the lines of the auto-insights block: the R2 statement, one of the two
\* slope statements, and the worst row (df_out.iloc[0]) if any row is flagged
insight_lines(m, df_out) ==
    <<[kind |-> "explains", r2 |-> m.r2]>>
    \o (IF increases(slope_ppk(m.beta))
        THEN <<[kind |-> "increases", slope_ppk |-> slope_ppk(m.beta)]>>
        ELSE <<[kind |-> "does not increase", slope_ppk |-> slope_ppk(m.beta)]>>)
    \o (IF n_out(m) > 0 /\ df_out # <<>>
        THEN <<[kind |-> "worst", order_id |-> df_out[1].order_id,
                z_resid |-> df_out[1].z_resid,
                seller_id |-> df_out[1].seller_id,
                product_id |-> df_out[1].product_id]>>
        ELSE <<>>)

\* what a run that fitted shows: the fit m, the table and the insights
shown(m, df_out) ==
    m @@ [df_out |-> df_out, insight_lines |-> insight_lines(m, df_out)]

\* the script below the fit m: the outlier table and the auto-insights
below_the_fit(m, top_n) == shown(m, outlier_table(m, top_n))

\* the script below the data pull, on the frame df: the two guards, the
\* fit, the outlier table and the auto-insights
analyse(df, w) ==
    LET x  == [i \in 1..Len(df) |-> df[i].distance_km]
        y  == [i \in 1..Len(df) |-> df[i].freight_pct]
    IN  IF df = <<>>
        THEN [out |-> "stop", msg |-> "No rows after filters. Relax the bounds above."]
        ELSE IF nanstd_is_zero(x) \/ nanstd_is_zero(y)
        THEN [out |-> "stop", msg |-> "Not enough variation in filtered data to fit a regression. Adjust filters."]
        ELSE below_the_fit(page_fit(df, x, y, w.zcut), w.top_n)

\* the script from the data pull to the auto-insights
script(t, w) == analyse(query_df(t, w), w)

(***************************************************************************)
(* State                                                                   *)
(***************************************************************************)
VARIABLES
    fct_freight,   \* the warehouse table the page reads
    widgets,       \* the page's controls: level, max_km, max_pct, zcut, top_n
    page,          \* what the last run of the page script produced
    arr,           \* the arrays [x, y] handed to ols_fit
    ols,           \* the outcome of the last ols_fit(x, y) call
    raw,           \* the raw and staging tables fct_freight was built from
    tables,        \* the names of the tables and views in the database file
    pc,            \* the statement a running ensure_demo_db call is at, or 0
    mrt_kpis_daily_real   \* the daily KPI mart

vars == <<fct_freight, widgets, page, arr, ols, raw, tables, pc, mrt_kpis_daily_real>>

(***************************************************************************)
(* Bounds and input sets                                                   *)
(***************************************************************************)
\* most line items in the table
MaxRows == 6

\* longest arrays handed to ols_fit directly
MaxLen == 4

Q(n, d) == Rat(n, d)

\* the shipped lines a table is drawn from (rows of with_dist): the four
\* lanes of the end-to-end scenario, a second freight level on the 100 km
\* lane, and a second line of order o2 that has no coordinates
Lanes ==
    << [order_id |-> "o1", seller_id |-> "s1", product_id |-> "p1",
        distance_km |-> Fin(Q(100, 1)), freight_value |-> Q(5, 1), line_gross |-> Q(100, 1)],
       [order_id |-> "o2", seller_id |-> "s2", product_id |-> "p2",
        distance_km |-> Fin(Q(200, 1)), freight_value |-> Q(8, 1), line_gross |-> Q(100, 1)],
       [order_id |-> "o3", seller_id |-> "s3", product_id |-> "p3",
        distance_km |-> Fin(Q(300, 1)), freight_value |-> Q(11, 1), line_gross |-> Q(100, 1)],
       [order_id |-> "o4", seller_id |-> "s1", product_id |-> "p4",
        distance_km |-> Fin(Q(400, 1)), freight_value |-> Q(50, 1), line_gross |-> Q(100, 1)],
       [order_id |-> "o5", seller_id |-> "s2", product_id |-> "p1",
        distance_km |-> Fin(Q(100, 1)), freight_value |-> Q(13, 1), line_gross |-> Q(100, 1)],
       [order_id |-> "o2", seller_id |-> "s3", product_id |-> "p2",
        distance_km |-> NULL, freight_value |-> Q(2, 1), line_gross |-> Q(100, 1)] >>

\* the choices of lines for a table of n rows (lane numbers, non-decreasing)
Picks(n) ==
    {f \in [1..n -> 1..Len(Lanes)] : \A i \in 1..n : \A j \in i..n : f[i] <= f[j]}

\* the with_dist rows of a choice; order_item_id is order_id plus the
\* line's sequence number within its order
with_dist(f) ==
    [i \in 1..Len(f) |->
        LET l   == Lanes[f[i]]
            seq == Cardinality({j \in 1..i : Lanes[f[j]].order_id = l.order_id})
        IN  [order_item_id |-> [order_id |-> l.order_id, seq |-> seq],
             order_id |-> l.order_id,
             seller_id |-> l.seller_id, product_id |-> l.product_id,
             freight_value |-> l.freight_value, line_gross |-> l.line_gross,
             distance_km |-> l.distance_km]]

Tables == {build_fct_freight(with_dist(f)) : f \in UNION {Picks(n) : n \in 0..MaxRows}}

\* most lines of a ranking table that lie on the trend
MaxBase == 19

\* freight values of the lines off the trend (all at 200 km, line_gross 100):
\* none; a pair at equal distance above and below the trend; one line far
\* above (below) balanced by two below (above); six pairs of which the last
\* lies further out
Deviants ==
    { <<>>, <<15, 5>>, <<20, 5, 5>>, <<0, 15, 15>>,
      <<15, 5, 15, 5, 15, 5, 15, 5, 15, 5, 16, 4>> }

\* the trend's rise in freight value per 100 km
Slopes == {-1, 0, 1}

\* order ids for the ranking tables, in ascending order
RankIds ==
    << "r01", "r02", "r03", "r04", "r05", "r06", "r07", "r08", "r09", "r10",
       "r11", "r12", "r13", "r14", "r15", "r16", "r17", "r18", "r19", "r20",
       "r21", "r22", "r23", "r24", "r25", "r26", "r27", "r28", "r29", "r30",
       "r31", "r32" >>

Sellers == <<"s1", "s2", "s3">>

\* with_dist rows of a ranking table: the lines dev off the trend, then m
\* lines on it at 100, 200, 300, 100, ... km; one line per order; the order
\* ids ascend with the row position (asc) or descend
rank_rows(dev, m, slope, asc) ==
    [i \in 1..(Len(dev) + m) |->
        LET b  == i - Len(dev)
            km == IF b <= 0 THEN 2 ELSE 1 + ((b - 1) % 3)
            fv == IF b <= 0 THEN dev[i] ELSE 10 + slope * (km - 2)
            id == RankIds[IF asc THEN i ELSE Len(dev) + m + 1 - i]
        IN  [order_item_id |-> [order_id |-> id, seq |-> 1],
             order_id |-> id,
             seller_id |-> Sellers[1 + (i % 3)], product_id |-> "p1",
             freight_value |-> Q(fv, 1), line_gross |-> Q(100, 1),
             distance_km |-> Fin(Q(100 * km, 1))]]

RankTables ==
    { build_fct_freight(rank_rows(dev, m, slope, asc)) :
        dev \in Deviants, m \in 0..MaxBase, slope \in Slopes, asc \in BOOLEAN }

\* most line items in a table of the filter lanes
MaxLines == 5

\* shipped lines that the page's filters treat differently (rows of
\* with_dist): order o1 has a line at 100 km and one at 2000 km; order o2 a
\* line at 300 km and one without merchandise value; order o3 a line without
\* coordinates and one whose freight exceeds its value; order o4 has no
\* merchandise value at all; order o5's freight is negative
FilterLanes ==
    << [order_id |-> "o1", seller_id |-> "s1", product_id |-> "p1",
        distance_km |-> Fin(Q(100, 1)), freight_value |-> Q(5, 1), line_gross |-> Q(100, 1)],
       [order_id |-> "o1", seller_id |-> "s2", product_id |-> "p2",
        distance_km |-> Fin(Q(2000, 1)), freight_value |-> Q(8, 1), line_gross |-> Q(100, 1)],
       [order_id |-> "o2", seller_id |-> "s3", product_id |-> "p3",
        distance_km |-> Fin(Q(300, 1)), freight_value |-> Q(11, 1), line_gross |-> Q(100, 1)],
       [order_id |-> "o2", seller_id |-> "s1", product_id |-> "p4",
        distance_km |-> Fin(Q(200, 1)), freight_value |-> Q(20, 1), line_gross |-> Q(0, 1)],
       [order_id |-> "o3", seller_id |-> "s2", product_id |-> "p1",
        distance_km |-> NULL, freight_value |-> Q(5, 1), line_gross |-> Q(100, 1)],
       [order_id |-> "o3", seller_id |-> "s3", product_id |-> "p2",
        distance_km |-> Fin(Q(400, 1)), freight_value |-> Q(150, 1), line_gross |-> Q(100, 1)],
       [order_id |-> "o4", seller_id |-> "s1", product_id |-> "p3",
        distance_km |-> Fin(Q(200, 1)), freight_value |-> Q(8, 1), line_gross |-> Q(0, 1)],
       [order_id |-> "o5", seller_id |-> "s2", product_id |-> "p4",
        distance_km |-> Fin(Q(100, 1)), freight_value |-> Q(-5, 1), line_gross |-> Q(100, 1)] >>

\* the choices of n lines out of k lanes (lane numbers, non-decreasing)
picks_of(k, n) ==
    {f \in [1..n -> 1..k] : \A i \in 1..n : \A j \in i..n : f[i] <= f[j]}

\* the with_dist rows of a choice f of lanes; order_item_id is order_id plus
\* the line's sequence number within its order
lines_of(lanes, f) ==
    [i \in 1..Len(f) |->
        LET l   == lanes[f[i]]
            seq == Cardinality({j \in 1..i : lanes[f[j]].order_id = l.order_id})
        IN  [order_item_id |-> [order_id |-> l.order_id, seq |-> seq],
             order_id |-> l.order_id,
             seller_id |-> l.seller_id, product_id |-> l.product_id,
             freight_value |-> l.freight_value, line_gross |-> l.line_gross,
             distance_km |-> l.distance_km]]

FilterTables ==
    { build_fct_freight(lines_of(FilterLanes, f)) :
        f \in UNION {picks_of(Len(FilterLanes), n) : n \in 0..MaxLines} }

\* most line items in raw order_items
MaxItems == 3

\* the geolocation rows a table is drawn from: two rows with differing
\* coordinates for zip z1, two for z2 (one at a pole), and a row for z3
\* whose longitude is missing
GeoRows ==
    << [zip_prefix |-> "z1", lat |-> Fin(Q(0, 1)), lng |-> Fin(Q(0, 1))],
       [zip_prefix |-> "z1", lat |-> Fin(Q(0, 1)), lng |-> Fin(Q(60, 1))],
       [zip_prefix |-> "z2", lat |-> Fin(Q(0, 1)), lng |-> Fin(Q(0, 1))],
       [zip_prefix |-> "z2", lat |-> Fin(Q(90, 1)), lng |-> Fin(Q(0, 1))],
       [zip_prefix |-> "z3", lat |-> Fin(Q(0, 1)), lng |-> NULL] >>

\* stg_geolocation: any selection of the rows, each once (GROUP BY 1,2,3,4,5)
GeoTables == {Where(GeoRows, m) : m \in [1..Len(GeoRows) -> BOOLEAN]}

\* the orders with their customer's zip_prefix; o4 was not delivered
Orders ==
    { [order_id |-> "o1", zip_prefix |-> "z1", is_delivered |-> TRUE, order_date |-> 1,
       delivered_customer_ts |-> Ts(5), estimated_delivery_ts |-> Ts(6)],
      [order_id |-> "o2", zip_prefix |-> "z2", is_delivered |-> TRUE, order_date |-> 1,
       delivered_customer_ts |-> Ts(5), estimated_delivery_ts |-> Ts(4)],
      [order_id |-> "o3", zip_prefix |-> "z3", is_delivered |-> TRUE, order_date |-> 2,
       delivered_customer_ts |-> Ts(6), estimated_delivery_ts |-> NULL],
      [order_id |-> "o4", zip_prefix |-> "z1", is_delivered |-> FALSE, order_date |-> 3,
       delivered_customer_ts |-> NULL, estimated_delivery_ts |-> Ts(8)] }

\* delivery against the estimate: on time, late, no estimate, no delivery date
OnTime == [delivered_customer_ts |-> Ts(5), estimated_delivery_ts |-> Ts(6)]

Late == [delivered_customer_ts |-> Ts(5), estimated_delivery_ts |-> Ts(4)]

NoEstimate == [delivered_customer_ts |-> Ts(5), estimated_delivery_ts |-> NULL]

NoDelivery == [delivered_customer_ts |-> NULL, estimated_delivery_ts |-> Ts(6)]

Timings == {OnTime, Late, NoEstimate, NoDelivery}

\* a row of stg_orders
order_row(id, zip, date, delivered, t) ==
    [order_id |-> id, zip_prefix |-> zip, is_delivered |-> delivered, order_date |-> date,
     delivered_customer_ts |-> t.delivered_customer_ts,
     estimated_delivery_ts |-> t.estimated_delivery_ts]

\* stg_orders tables: o1 is delivered on day 1, o2 is delivered on day 1 or
\* day 2, o3 is an order of day 2 that may not be delivered, and o4 is an
\* undelivered order of day 3
OrderTables ==
    { { order_row("o1", "z1", 1, TRUE, t1), order_row("o2", "z2", d2, TRUE, t2),
        order_row("o3", "z3", 2, s3, OnTime), order_row("o4", "z1", 3, FALSE, NoDelivery) } :
        t1 \in Timings, t2 \in Timings, d2 \in {1, 2}, s3 \in BOOLEAN }

SellerZips ==
    { [seller_id |-> "s1", zip_prefix |-> "z1"],
      [seller_id |-> "s2", zip_prefix |-> "z2"],
      [seller_id |-> "s3", zip_prefix |-> "z3"] }

\* the line items raw order_items is drawn from
ItemLanes ==
    << [order_id |-> "o1", seller_id |-> "s1", product_id |-> "p1",
        freight_value |-> Q(5, 1), line_gross |-> Q(100, 1)],
       [order_id |-> "o1", seller_id |-> "s2", product_id |-> "p2",
        freight_value |-> Q(20, 1), line_gross |-> Q(100, 1)],
       [order_id |-> "o2", seller_id |-> "s1", product_id |-> "p3",
        freight_value |-> Q(11, 1), line_gross |-> Q(100, 1)],
       [order_id |-> "o3", seller_id |-> "s1", product_id |-> "p4",
        freight_value |-> Q(8, 1), line_gross |-> Q(100, 1)],
       [order_id |-> "o1", seller_id |-> "s3", product_id |-> "p1",
        freight_value |-> Q(30, 1), line_gross |-> Q(100, 1)],
       [order_id |-> "o4", seller_id |-> "s1", product_id |-> "p2",
        freight_value |-> Q(5, 1), line_gross |-> Q(100, 1)],
       [order_id |-> "o3", seller_id |-> "s2", product_id |-> "p4",
        freight_value |-> Q(7, 1), line_gross |-> Q(0, 1)] >>

\* stg_order_items for a choice f of lanes
order_items_of(f) ==
    [i \in 1..Len(f) |->
        LET l   == ItemLanes[f[i]]
            seq == Cardinality({j \in 1..i : ItemLanes[f[j]].order_id = l.order_id})
        IN  [order_item_id |-> [order_id |-> l.order_id, seq |-> seq],
             order_id |-> l.order_id,
             seller_id |-> l.seller_id, product_id |-> l.product_id,
             freight_value |-> l.freight_value, line_gross |-> l.line_gross]]

RawTables ==
    { [kept |-> TRUE,
       order_items |-> order_items_of(f), orders |-> Orders,
       sellers |-> SellerZips, geolocation |-> g] :
        f \in UNION {picks_of(Len(ItemLanes), n) : n \in 0..MaxItems},
        g \in GeoTables }

\* raw tables with every geolocation row and any of the stg_orders tables
KpiTables ==
    { [kept |-> TRUE,
       order_items |-> order_items_of(f), orders |-> os,
       sellers |-> SellerZips, geolocation |-> GeoRows] :
        f \in UNION {picks_of(Len(ItemLanes), n) : n \in 0..MaxItems},
        os \in OrderTables }

\* raw tables with every geolocation row and one line item
BootTables == {r \in RawTables : r.geolocation = GeoRows /\ Len(r.order_items) = 1}

\* positions of the radio button and the sliders the model visits
Levels == {"Line", "Orders"}

TopNs == {10, DefaultTopN}

MaxKms == {Q(250, 1), Q(1500, 1)}

MaxPcts == {Q(10, 100), Q(100, 100)}

Zcuts == {Q(15, 10), Q(25, 10)}

\* the controls as first rendered (index=0, 1500, 1.00, 2.5, 50)
DefaultWidgets ==
    [level |-> "Line", max_km |-> Q(1500, 1), max_pct |-> Q(100, 100),
     zcut |-> Q(25, 10), top_n |-> DefaultTopN]

\* a nullable DOUBLE column as a NumPy array: NULL becomes NaN
to_numpy(v) == IF v = NULL THEN NaN ELSE v

\* (x, y) pairs the arrays handed to ols_fit are drawn from
Cells ==
    { <<Fin(Q(1, 1)), Fin(Q(0, 1))>>, <<Fin(Q(5, 1)), Fin(Q(0, 1))>>,
      <<Fin(Q(5, 1)), Fin(Q(1, 1))>>, <<Fin(Q(2, 1)), Fin(Q(1, 1))>>,
      <<NaN, Fin(Q(1, 1))>>, <<Fin(Q(5, 1)), Inf(1)>> }

Arrays ==
    { [x |-> [i \in DOMAIN c |-> c[i][1]], y |-> [i \in DOMAIN c |-> c[i][2]]] :
        c \in UNION {[1..n -> Cells] : n \in 0..MaxLen} }

(***************************************************************************)
(* Initial states and actions                                              *)
(***************************************************************************)
NotRun == [out |-> "none"]

\* the page after the warning that fct_freight is missing
NoTable == [out |-> "no_table"]

NotCalled == [called |-> FALSE]

\* the table is given as built; the tables it came from are not looked at
NotKept == [kept |-> FALSE]

\* the tables and views ensure_demo_db creates, in the order of its statements
Statements ==
    << "raw_orders", "raw_order_items", "raw_customers", "raw_payments", "raw_reviews",
       "raw_products", "raw_sellers", "raw_geolocation",
       "stg_orders", "stg_order_items", "stg_customers", "stg_products", "stg_payments",
       "stg_reviews", "stg_sellers", "stg_geolocation",
       "dim_customers", "fct_order_items", "fct_orders",
       "fct_deliveries", "fct_freight", "mrt_kpis_daily_real", "mrt_reviews" >>

\* every table and view of the warehouse
Warehouse == {Statements[k] : k \in 1..Len(Statements)}

\* SELECT 1 FROM name succeeds
table_exists(name) == name \in tables

\* a warehouse table is present; the page has not been requested yet
Init ==
    /\ fct_freight \in Tables
    /\ widgets = DefaultWidgets
    /\ page = NotRun
    /\ arr = [x |-> [i \in 1..Len(fct_freight) |-> to_numpy(fct_freight[i].distance_km)],
              y |-> [i \in 1..Len(fct_freight) |-> to_numpy(fct_freight[i].freight_pct_line)]]
    /\ ols = NotCalled
    /\ raw = NotKept
    /\ tables = Warehouse
    /\ pc = 0
    /\ mrt_kpis_daily_real = <<>>

\* a warehouse table with many lines, several of them off the trend
InitRank ==
    /\ fct_freight \in RankTables
    /\ widgets = DefaultWidgets
    /\ page = NotRun
    /\ arr = [x |-> <<>>, y |-> <<>>]
    /\ ols = NotCalled
    /\ raw = NotKept
    /\ tables = Warehouse
    /\ pc = 0
    /\ mrt_kpis_daily_real = <<>>

\* a warehouse table with lines on both sides of every filter
InitFilter ==
    /\ fct_freight \in FilterTables
    /\ widgets = DefaultWidgets
    /\ page = NotRun
    /\ arr = [x |-> <<>>, y |-> <<>>]
    /\ ols = NotCalled
    /\ raw = NotKept
    /\ tables = Warehouse
    /\ pc = 0
    /\ mrt_kpis_daily_real = <<>>

\* the database file is empty; raw is the data a call will load into it
Empty(rs) ==
    /\ raw \in rs
    /\ tables = {}
    /\ pc = 0
    /\ fct_freight = <<>>
    /\ mrt_kpis_daily_real = <<>>
    /\ widgets = DefaultWidgets
    /\ page = NotRun
    /\ arr = [x |-> <<>>, y |-> <<>>]
    /\ ols = NotCalled

InitGeo == Empty(RawTables)

InitKpi == Empty(KpiTables)

InitBoot == Empty(BootTables)

\* the helper is exercised directly on arbitrary arrays
InitOls ==
    /\ fct_freight = <<>>
    /\ widgets = DefaultWidgets
    /\ page = NotRun
    /\ arr \in Arrays
    /\ ols = NotCalled
    /\ raw = NotKept
    /\ tables = Warehouse
    /\ pc = 0
    /\ mrt_kpis_daily_real = <<>>

\* a run of the page script, top to bottom, with the controls at w; the
\* top-N slider is created after the fit only, so a run that stops before it
\* leaves no slider and the next one to be created starts at its default
Run(w) ==
    /\ page' = IF table_exists("fct_freight") THEN script(fct_freight, w) ELSE NoTable
    /\ widgets' = IF page'.out = "fit" THEN w
                  ELSE IF page' = NoTable THEN DefaultWidgets
                  ELSE [w EXCEPT !.top_n = DefaultTopN]
    /\ UNCHANGED <<fct_freight, arr, ols, raw, tables, pc, mrt_kpis_daily_real>>

\* the controls are on screen: the script ran past the table check
controls == page # NotRun /\ page # NoTable

\* the table a statement writes: what its SELECT yields over the raw tables r
\* for the two tables whose rows are kept, the rows in place otherwise
created(name, r, target, rows) ==
    IF name # target THEN rows
    ELSE IF name = "fct_freight" THEN fct_freight_sql(r)
    ELSE mrt_kpis_sql(fct_orders_sql(r), fct_deliveries_sql(fct_orders_sql(r)))

\* a call that finds no fct_orders and runs every statement to the end
ensure_demo_db ==
    /\ pc = 0
    /\ ~table_exists("fct_orders")
    /\ tables' = tables \cup Warehouse
    /\ fct_freight' = created("fct_freight", raw, "fct_freight", fct_freight)
    /\ mrt_kpis_daily_real' =
           created("mrt_kpis_daily_real", raw, "mrt_kpis_daily_real", mrt_kpis_daily_real)
    /\ UNCHANGED <<widgets, page, arr, ols, raw, pc>>

\* the probe SELECT 1 FROM fct_orders succeeds, so the call returns at once
returns_early(name) == table_exists(name)

\* a call starts: it returns at once when fct_orders can be queried, and
\* goes on to its first statement otherwise
call ==
    /\ pc = 0
    /\ pc' = IF returns_early("fct_orders") THEN 0 ELSE 1
    /\ UNCHANGED <<fct_freight, widgets, page, arr, ols, raw, tables, mrt_kpis_daily_real>>

\* the running call executes its next statement, which commits on its own
execute ==
    /\ pc \in 1..Len(Statements)
    /\ tables' = tables \cup {Statements[pc]}
    /\ fct_freight' = created(Statements[pc], raw, "fct_freight", fct_freight)
    /\ mrt_kpis_daily_real' =
           created(Statements[pc], raw, "mrt_kpis_daily_real", mrt_kpis_daily_real)
    /\ pc' = IF pc = Len(Statements) THEN 0 ELSE pc + 1
    /\ UNCHANGED <<widgets, page, arr, ols, raw>>

\* the statement the running call is at raises, and the exception leaves
\* ensure_demo_db; what earlier statements committed stays
abort ==
    /\ pc \in 1..Len(Statements)
    /\ pc' = 0
    /\ UNCHANGED <<fct_freight, widgets, page, arr, ols, raw, tables, mrt_kpis_daily_real>>

\* the first request renders the page with the controls at their defaults
Load ==
    /\ ~controls
    /\ Run(DefaultWidgets)

\* the user moves one control, which reruns the script
SetLevel ==
    /\ controls
    /\ \E v \in Levels \ {widgets.level} : Run([widgets EXCEPT !.level = v])

SetMaxKm ==
    /\ controls
    /\ \E v \in MaxKms \ {widgets.max_km} : Run([widgets EXCEPT !.max_km = v])

SetMaxPct ==
    /\ controls
    /\ \E v \in MaxPcts \ {widgets.max_pct} : Run([widgets EXCEPT !.max_pct = v])

SetZcut ==
    /\ controls
    /\ \E v \in Zcuts \ {widgets.zcut} : Run([widgets EXCEPT !.zcut = v])

\* the user moves the top-N slider, which is on screen below a fit only
SetTopN ==
    /\ page.out = "fit"
    /\ \E v \in TopNs \ {widgets.top_n} : Run([widgets EXCEPT !.top_n = v])

\* a call ols_fit(x, y)
OlsFit ==
    /\ ols' = [called |-> TRUE, res |-> ols_fit(arr.x, arr.y)]
    /\ UNCHANGED <<fct_freight, widgets, page, arr, raw, tables, pc, mrt_kpis_daily_real>>

Next == Load \/ SetLevel \/ SetMaxKm \/ SetMaxPct \/ SetZcut \/ OlsFit

NextOls == OlsFit

NextRank == Load \/ SetLevel \/ SetZcut \/ SetTopN

NextFilter == Load \/ SetLevel \/ SetMaxKm \/ SetMaxPct

NextGeo == ensure_demo_db \/ Load \/ SetLevel

NextKpi == ensure_demo_db

NextBoot == call \/ execute \/ abort \/ Load

Spec == Init /\ [][Next]_vars

SpecOls == InitOls /\ [][NextOls]_vars

SpecRank == InitRank /\ [][NextRank]_vars

SpecFilter == InitFilter /\ [][NextFilter]_vars

SpecGeo == InitGeo /\ [][NextGeo]_vars

SpecKpi == InitKpi /\ [][NextKpi]_vars

SpecBoot == InitBoot /\ [][NextBoot]_vars

(***************************************************************************)
(* Properties                                                              *)
(***************************************************************************)
\* |z| > t, stated on the square: z is sg * sqrt(sq), t a positive rational
AbsAbove(z, t) ==
    \/ z.k = "inf"
    \/ z.k = "fin" /\ RLt(RSq(t), z.sq)

\* |z| = t
AbsEquals(z, t) == z.k = "fin" /\ z.sq = RSq(t)

\* z * sigma = r for finite z, sigma > 0 and a rational r
TimesSigmaIs(z, sigma, r) ==
    /\ z.k = "fin"
    /\ z.sg = Sign(r.n)
    /\ RMul(z.sq, sigma.sq) = RSq(r)

\* z = r for a rational r
IsRational(z, r) ==
    /\ z.k = "fin"
    /\ z.sg = Sign(r.n)
    /\ z.sq = RSq(r)

Fitted == page.out = "fit"

Returned == ols.called /\ ols.res.ok

\* C1: in every fit the page shows, row i is flagged exactly when |z[i]| is
\* strictly above the threshold set on the slider: a row at the threshold is
\* not flagged, and every row above it is
C1_FlagIffAboveThreshold ==
    Fitted =>
        /\ DOMAIN page.is_outlier = 1..Len(page.df)
        /\ \A i \in 1..Len(page.df) :
              page.is_outlier[i] <=> AbsAbove(page.z_resid[i], widgets.zcut)

\* C1 witness: a fit in which one row sits exactly at the threshold (and is
\* not flagged)
C1_Witness ==
    /\ Fitted
    /\ \E i \in 1..Len(page.df) :
          AbsEquals(page.z_resid[i], widgets.zcut) /\ ~page.is_outlier[i]

\* the z array is resid / sigma when sigma > 0, resid itself when sigma = 0,
\* and holds no NaN or infinity
ZScoresOf(z, resid, sigma) ==
    /\ DOMAIN z = DOMAIN resid
    /\ \A i \in DOMAIN resid :
          /\ z[i].k = "fin"
          /\ (sigma.k = "fin" /\ sigma.sg > 0) => TimesSigmaIs(z[i], sigma, resid[i])
          /\ (sigma.k = "fin" /\ sigma.sg = 0) => IsRational(z[i], resid[i])

\* C2: both in the page's inline fit and in ols_fit, z[i] = resid[i] / sigma
\* when sigma > 0 and z[i] = resid[i] when sigma = 0, and no z[i] of an
\* accepted fit is NaN or infinite
C2_ZIsResidualOverSigma ==
    /\ Fitted => ZScoresOf(page.z_resid, page.resid, page.sigma)
    /\ Returned => ZScoresOf(ols.res.z, ols.res.resid, ols.res.sigma)

\* C2 witness: the page fitted three or more rows exactly (sigma = 0) while
\* ols_fit on the whole table returned a fit with sigma > 0
C2_Witness ==
    /\ Fitted /\ Len(page.df) >= 3
    /\ page.sigma.k = "fin" /\ page.sigma.sg = 0
    /\ Returned /\ ols.res.sigma.k = "fin" /\ ols.res.sigma.sg > 0
    /\ \E i \in DOMAIN ols.res.z : ols.res.z[i].sg # 0

\* the rows of the input arrays whose x and y are both finite
FiniteRows == {i \in 1..Len(arr.x) : arr.x[i].k = "fin" /\ arr.y[i].k = "fin"}

\* C3: ols_fit raises its insufficient-data error, and returns no result,
\* exactly when fewer than 3 rows remain once the rows with a non-finite x
\* or y are removed
C3_FewerThanThreeRaises ==
    ols.called =>
        IF Cardinality(FiniteRows) < 3
        THEN ~ols.res.ok /\ ols.res.error = "Need at least 3 finite points for OLS"
        ELSE ols.res.ok

\* C3 witness: three or more rows were passed, exactly two of them finite,
\* and the call raised
C3_Witness ==
    /\ ols.called /\ ~ols.res.ok
    /\ Len(arr.x) >= 3
    /\ Cardinality(FiniteRows) = 2

\* C4 (as claimed): a request whose filtered frame has fewer than 3 rows is
\* reported as insufficient data and produces no fit, z-scores or flags
C4_FewerThanThreeRowsNotFitted == Fitted => Len(page.df) >= 3

\* the finite rows of the arrays all carry the same x
ConstantX == \A i, j \in FiniteRows : arr.x[i] = arr.x[j]

\* the finite rows of the arrays all carry the same y
ConstantY == \A i, j \in FiniteRows : arr.y[i] = arr.y[j]

\* C5 (as claimed): a fit on a constant predictor is refused, by ols_fit and
\* by the page: neither returns a fit when all x are equal
C5_ConstantPredictorRefused ==
    /\ Returned => ~ConstantX
    /\ Fitted => \E i, j \in 1..Len(page.df) :
                    page.df[i].distance_km # page.df[j].distance_km

\* C6 (as claimed): when all y are identical (SS_tot = 0) the engine reports
\* an error and returns no result
C6_ZeroTotalVarianceRefused == Returned => ~ConstantY

\* the frame the page script pulled for the controls as they stand
Frame == query_df(fct_freight, widgets)

DistinctX == {Frame[i].distance_km : i \in 1..Len(Frame)}

DistinctY == {Frame[i].freight_pct : i \in 1..Len(Frame)}

KthFinite(j) ==
    CHOOSE i \in FiniteRows : Cardinality({m \in FiniteRows : m <= i}) = j

\* C8: ols_fit removes every row with a NaN or infinite x or y before it
\* estimates the coefficients: y_hat, resid and z have one entry per
\* remaining row, entry j belongs to the j-th remaining row of the input
\* (y_hat[j] = a + b * x, resid[j] = y - y_hat[j]), and [a, b] solves the
\* normal equations of the remaining rows alone
C8_NonFiniteRowsRemovedInOrder ==
    Returned =>
        LET n == Cardinality(FiniteRows)
            r == ols.res
            X(j) == arr.x[KthFinite(j)].v
            Y(j) == arr.y[KthFinite(j)].v
        IN  /\ DOMAIN r.y_hat = 1..n
            /\ DOMAIN r.resid = 1..n
            /\ DOMAIN r.z = 1..n
            /\ \A j \in 1..n :
                  /\ r.y_hat[j] = RAdd(r.beta[1], RMul(r.beta[2], X(j)))
                  /\ r.resid[j] = RSub(Y(j), r.y_hat[j])
                  /\ r.z[j].k = "fin" /\ r.z[j].sg = Sign(r.resid[j].n)
            /\ RSum([j \in 1..n |-> r.resid[j]]) = RInt(0)
            /\ RSum([j \in 1..n |-> RMul(r.resid[j], X(j))]) = RInt(0)

\* C8 witness: a fit was returned although a non-finite row preceded a
\* finite one in the input, on rows with differing x and nonzero residuals
C8_Witness ==
    /\ Returned
    /\ \E i \in (1..Len(arr.x)) \ FiniteRows : \E k \in FiniteRows : i < k
    /\ ~ConstantX
    /\ \E j \in DOMAIN ols.res.resid : ols.res.resid[j].n # 0

\* the page fitted the four rows of the end-to-end scenario at threshold 2.5
Scenario ==
    /\ Fitted
    /\ widgets.zcut = Q(25, 10)
    /\ [i \in 1..Len(page.df) |-> page.df[i].distance_km]
          = <<Q(100, 1), Q(200, 1), Q(300, 1), Q(400, 1)>>
    /\ [i \in 1..Len(page.df) |-> page.df[i].freight_pct]
          = <<Q(5, 100), Q(8, 100), Q(11, 100), Q(50, 100)>>

\* C9 (as claimed): on the scenario rows the slope is positive and the 4th
\* row is the one and only outlier
C9_FourthRowSoleOutlier ==
    Scenario => /\ page.beta[2].n > 0
                /\ page.is_outlier = <<FALSE, FALSE, FALSE, TRUE>>

\* C9 (amended): on the scenario rows the slope is positive (69/50000 per
\* km) and no row is flagged at threshold 2.5: the squared z-scores sum to
\* n - 2 = 2, the 4th row's residual is positive with z^2 = 3/5
C9_PositiveSlopeNoOutlier ==
    Scenario => /\ page.beta[2] = Q(69, 50000)
                /\ page.is_outlier = <<FALSE, FALSE, FALSE, FALSE>>
                /\ page.resid[4].n > 0
                /\ page.z_resid[4] = Surd(1, Q(3, 5))
                /\ RSum([i \in 1..4 |-> page.z_resid[i].sq]) = RInt(2)

\* C9 witness: the scenario has been fitted
C9_Witness == Scenario

\* C10: when the threshold slider is moved up (or left alone) on the same
\* frame, every row flagged afterwards was flagged before: the flagged set
\* shrinks or stays, and so does the outlier count
C10_RaisingThresholdShrinksFlags ==
    [][ (/\ Fitted
         /\ page'.out = "fit"
         /\ page'.df = page.df
         /\ RLe(widgets.zcut, widgets'.zcut))
        => \A i \in 1..Len(page.df) : page'.is_outlier[i] => page.is_outlier[i] ]_vars

\* C10 witness: at the lower threshold a row is flagged whose |z| does not
\* exceed the higher threshold, so raising the slider unflags it
C10_Witness ==
    /\ Fitted
    /\ \E t \in Zcuts :
          /\ RLt(widgets.zcut, t)
          /\ \E i \in 1..Len(page.df) :
                page.is_outlier[i] /\ ~AbsAbove(page.z_resid[i], t)

(***************************************************************************)
(* The outlier table and the auto-insights                                 *)
(***************************************************************************)
\* every order id of the model, in ascending (string) order
IdsAscending == <<"o1", "o2", "o3", "o4", "o5">> \o RankIds

IdRank(id) == CHOOSE i \in 1..Len(IdsAscending) : IdsAscending[i] = id

\* entity a comes before entity b: by order id for order rows, by order id
\* and then line number for line rows (the order of the order_item_id text)
EntityBefore(a, b) ==
    \/ IdRank(a.order_id) < IdRank(b.order_id)
    \/ /\ a.order_id = b.order_id
       /\ a.order_item_id # NULL /\ b.order_item_id # NULL
       /\ a.order_item_id.seq < b.order_item_id.seq

\* the frame positions the page flagged
FlaggedRows == {i \in 1..Len(page.df) : page.is_outlier[i]}

\* table row r shows frame row i
Shows(r, i) ==
    /\ r.order_id = page.df[i].order_id
    /\ r.order_item_id = page.df[i].order_item_id
    /\ r.seller_id = page.df[i].seller_id
    /\ r.product_id = page.df[i].product_id
    /\ r.distance_km = page.df[i].distance_km
    /\ r.freight_pct = page.df[i].freight_pct
    /\ r.y_hat = page.y_hat[i]
    /\ r.resid = page.resid[i]
    /\ r.z_resid = page.z_resid[i]

Min(a, b) == IF a < b THEN a ELSE b

\* C11 (as claimed): the outlier table holds flagged rows only, each once,
\* min(top_n, flagged) of them, by |z| descending and, among rows of equal
\* |z|, by entity id ascending; no flagged row left out has a larger |z|
\* than a listed one
C11_TableRankedWithIdTieBreak ==
    Fitted =>
        LET T == page.df_out
        IN  /\ Len(T) = Min(widgets.top_n, Cardinality(FlaggedRows))
            /\ \A k \in 1..Len(T) :
                  /\ \E i \in FlaggedRows : Shows(T[k], i)
                  /\ Cardinality({l \in 1..Len(T) : T[l] = T[k]})
                        <= Cardinality({i \in FlaggedRows : Shows(T[k], i)})
            /\ \A i \in FlaggedRows :
                  \/ \E k \in 1..Len(T) : Shows(T[k], i)
                  \/ \A k \in 1..Len(T) : RLe(page.z_resid[i].sq, T[k].z_resid.sq)
            /\ \A k, l \in 1..Len(T) :
                  k < l =>
                     /\ RLe(T[l].z_resid.sq, T[k].z_resid.sq)
                     /\ T[l].z_resid.sq = T[k].z_resid.sq => EntityBefore(T[k], T[l])

\* the frame df with its rows in reverse order, and with rows i and i + 1
\* exchanged
Reversed(df) == [i \in 1..Len(df) |-> df[Len(df) + 1 - i]]

Swapped(df, i) ==
    [j \in 1..Len(df) |-> IF j = i THEN df[i + 1] ELSE IF j = i + 1 THEN df[i] ELSE df[j]]

Reorderings(df) == {Reversed(df)} \cup {Swapped(df, i) : i \in 1..(Len(df) - 1)}

\* what a fit says about each of its rows
PerRow(m) ==
    {<<m.df[i], m.y_hat[i], m.resid[i], m.z_resid[i], m.is_outlier[i]>> :
        i \in 1..Len(m.df)}

\* C12 (as claimed): the page's answer is the answer to the current request
\* alone, and a request with the same filtered rows in another row order,
\* the same threshold and the same top_n gets the same fit, the same flags
\* and the same outlier table, row for row
C12_SameRowsSameTable ==
    Fitted =>
        /\ page = analyse(Frame, widgets)
        /\ \A df \in Reorderings(Frame) :
              LET other == analyse(df, widgets)
              IN  /\ other.out = "fit"
                  /\ other.beta = page.beta
                  /\ other.r2 = page.r2
                  /\ other.sigma = page.sigma
                  /\ PerRow(other) = PerRow(page)
                  /\ other.df_out = page.df_out

\* the auto-insight lines of one kind
Lines(kind) ==
    {k \in 1..Len(page.insight_lines) : page.insight_lines[k].kind = kind}

\* |z| of frame row i is the largest of all analysed rows
LargestAbsZ(i) ==
    \A j \in 1..Len(page.df) : RLe(page.z_resid[j].sq, page.z_resid[i].sq)

C14_SlopeStatementBySign ==
    /\ Fitted =>
          /\ Cardinality(Lines("increases") \cup Lines("does not increase")) = 1
          /\ Lines("increases") # {} <=> RLt(RInt(0), RMul(page.beta[2], RInt(100)))
          /\ \A k \in Lines("increases") \cup Lines("does not increase") :
                page.insight_lines[k].slope_ppk = RMul(page.beta[2], RInt(100))
    /\ page.out = "stop" => DOMAIN page = {"out", "msg"}

\* C14 witness: a fit with slope exactly zero reported as no increase
C14_Witness ==
    /\ Fitted
    /\ page.beta[2] = RInt(0)
    /\ Lines("does not increase") # {}

(***************************************************************************)
(* The analysis frame                                                      *)
(***************************************************************************)
\* the table rows of order oid whose distance is known
KnownDistanceLines(oid) ==
    {i \in 1..Len(fct_freight) :
        fct_freight[i].order_id = oid /\ fct_freight[i].distance_km # NULL}

\* an enumeration of a finite set of positions
RECURSIVE SeqOf(_)
SeqOf(S) == IF S = {} THEN <<>> ELSE LET i == CHOOSE j \in S : TRUE IN <<i>> \o SeqOf(S \ {i})

\* the median of the known line distances of order oid
MedianKnownDistance(oid) ==
    LET k == SeqOf(KnownDistanceLines(oid))
    IN  median([j \in 1..Len(k) |-> fct_freight[k[j]].distance_km.v])

\* C19 (as claimed): at order granularity, the distance of an order's row
\* is the median of the distances of all of that order's line items that
\* have a known distance, also when some of them exceed max_km
C19_OrderDistanceIsMedianOfKnown ==
    (page.out # "none" /\ widgets.level = "Orders") =>
        \A r \in 1..Len(Frame) :
            Frame[r].distance_km = MedianKnownDistance(Frame[r].order_id)

\* v is a number within [0, hi]
Within(v, hi) == v # NULL /\ v.k = "fin" /\ RLe(RInt(0), v.v) /\ RLe(v.v, hi)

\* table row i passes the line-level filters
LineAdmitted(i) ==
    /\ Within(fct_freight[i].distance_km, widgets.max_km)
    /\ Within(fct_freight[i].freight_pct_line, widgets.max_pct)
    /\ RLt(RInt(0), fct_freight[i].line_gross)

\* table row i passes the order-level filters
OrderLineAdmitted(i) ==
    /\ Within(fct_freight[i].distance_km, widgets.max_km)
    /\ Within(fct_freight[i].order_freight_pct, widgets.max_pct)

\* C20: at both granularities every row of the frame (the rows passed to
\* the fit) has a distance within [0, max_km], a freight percentage within
\* [0, max_pct] and a merchandise value > 0 (the line's line_gross, the
\* order's order_gmv), and the frame leaves out nothing else: at line level
\* it holds exactly the table's admitted lines, at order level exactly one
\* row for each order with an admitted line
C20_FrameWithinBounds ==
    page.out # "none" =>
        /\ Fitted => page.df = Frame
        /\ \A r \in 1..Len(Frame) :
              /\ RLe(RInt(0), Frame[r].distance_km)
              /\ RLe(Frame[r].distance_km, widgets.max_km)
              /\ RLe(RInt(0), Frame[r].freight_pct)
              /\ RLe(Frame[r].freight_pct, widgets.max_pct)
              /\ \E i \in 1..Len(fct_freight) :
                    /\ fct_freight[i].order_id = Frame[r].order_id
                    /\ IF widgets.level = "Line"
                       THEN /\ fct_freight[i].order_item_id = Frame[r].order_item_id
                            /\ LineAdmitted(i)
                            /\ Frame[r].line_gross = Fin(fct_freight[i].line_gross)
                       ELSE /\ OrderLineAdmitted(i)
                            /\ RLt(RInt(0), fct_freight[i].order_gmv)
        /\ IF widgets.level = "Line"
           THEN /\ Len(Frame) = Cardinality({i \in 1..Len(fct_freight) : LineAdmitted(i)})
                /\ \A i \in 1..Len(fct_freight) :
                      LineAdmitted(i) =>
                         \E r \in 1..Len(Frame) :
                            Frame[r].order_item_id = fct_freight[i].order_item_id
           ELSE /\ \A r, q \in 1..Len(Frame) :
                      r # q => Frame[r].order_id # Frame[q].order_id
                /\ \A i \in 1..Len(fct_freight) :
                      OrderLineAdmitted(i) =>
                         \E r \in 1..Len(Frame) :
                            Frame[r].order_id = fct_freight[i].order_id

\* C20 witness: a fit on a frame that left out three lines of the table:
\* one without a distance or beyond max_km, one whose freight percentage is
\* NULL (no merchandise value), and one whose percentage is out of range
C20_Witness ==
    /\ Fitted
    /\ widgets.level = "Line"
    /\ \E i, j, k \in 1..Len(fct_freight) :
          /\ ~Within(fct_freight[i].distance_km, widgets.max_km)
          /\ fct_freight[j].freight_pct_line = NULL
          /\ fct_freight[k].freight_pct_line # NULL
          /\ ~Within(fct_freight[k].freight_pct_line, widgets.max_pct)
          /\ Within(fct_freight[k].distance_km, widgets.max_km)
          /\ Within(fct_freight[j].distance_km, widgets.max_km)

(***************************************************************************)
(* From the raw tables to fct_freight                                      *)
(***************************************************************************)
\* fct_freight has been created from the raw tables
Built == raw.kept /\ table_exists("fct_freight")

\* the line items of delivered orders
DeliveredItems ==
    {it \in {raw.order_items[i] : i \in 1..Len(raw.order_items)} :
        \E o \in raw.orders : o.order_id = it.order_id /\ o.is_delivered}

\* the geolocation table has a row with both coordinates for the zip prefix
CoordsKnown(zip) ==
    \E i \in 1..Len(raw.geolocation) :
        /\ raw.geolocation[i].zip_prefix = zip
        /\ raw.geolocation[i].lat # NULL
        /\ raw.geolocation[i].lng # NULL

\* the customer's or the seller's coordinates of a line item are unknown
CoordsUnknown(it) ==
    \/ ~CoordsKnown(cust_zip(raw, it.order_id))
    \/ ~CoordsKnown(seller_zip(raw, it.seller_id))

\* the rows of fct_freight that belong to a line item
RowsOf(it) ==
    {i \in 1..Len(fct_freight) : fct_freight[i].order_item_id = it.order_item_id}

\* the median of the in-range distances among the table rows of order oid
MedianInRange(oid) ==
    LET k == SeqOf({i \in 1..Len(fct_freight) :
                       /\ fct_freight[i].order_id = oid
                       /\ Within(fct_freight[i].distance_km, widgets.max_km)})
    IN  median([j \in 1..Len(k) |-> fct_freight[k[j]].distance_km.v])

\* C15: a delivered line item whose customer or seller coordinates are
\* unknown has distance_km = NULL in every row fct_freight holds for it
\* (never 0 or another number); no line-level frame holds a row of such a
\* line, and an order-level row's distance is the median of numbers from
\* rows with a distance only, so an order whose lines are all without
\* coordinates has no row
C15_UnknownCoordinatesGiveNull ==
    Built =>
        /\ \A it \in DeliveredItems :
              CoordsUnknown(it) =>
                 /\ RowsOf(it) # {}
                 /\ \A i \in RowsOf(it) : fct_freight[i].distance_km = NULL
        /\ (controls /\ widgets.level = "Line") =>
              \A r \in 1..Len(Frame) : \A it \in DeliveredItems :
                  it.order_item_id = Frame[r].order_item_id => ~CoordsUnknown(it)
        /\ (controls /\ widgets.level = "Orders") =>
              \A r \in 1..Len(Frame) :
                 /\ \E it \in DeliveredItems :
                       it.order_id = Frame[r].order_id /\ ~CoordsUnknown(it)
                 /\ Frame[r].distance_km = MedianInRange(Frame[r].order_id)

\* C15 witness: an order-level frame with a row for an order of which one
\* line has unknown coordinates, while another order, whose customer is
\* unknown, has no row
C15_Witness ==
    /\ Built
    /\ controls /\ widgets.level = "Orders"
    /\ \E r \in 1..Len(Frame) : \E it \in DeliveredItems :
          it.order_id = Frame[r].order_id /\ CoordsUnknown(it)
    /\ \E it \in DeliveredItems :
          /\ ~CoordsKnown(cust_zip(raw, it.order_id))
          /\ \A r \in 1..Len(Frame) : Frame[r].order_id # it.order_id

\* the rows of with_dist, which still carry the coordinates
WithDist == with_dist_rows(raw, li(raw))

AllKnown(w) ==
    w.cust_lat # NULL /\ w.cust_lng # NULL /\ w.seller_lat # NULL /\ w.seller_lng # NULL

\* C16: the distance of a with_dist row is 0 when the customer's and the
\* seller's coordinates are identical, and two rows whose customer and
\* seller points are exchanged have the same distance
C16_DistanceZeroAndSymmetric ==
    Built =>
        \A a, b \in {WithDist[i] : i \in 1..Len(WithDist)} :
            (AllKnown(a) /\ AllKnown(b)) =>
                /\ (a.cust_lat = a.seller_lat /\ a.cust_lng = a.seller_lng)
                      => a.distance_km = Fin(RInt(0))
                /\ (/\ a.cust_lat = b.seller_lat /\ a.cust_lng = b.seller_lng
                    /\ a.seller_lat = b.cust_lat /\ a.seller_lng = b.cust_lng)
                      => a.distance_km = b.distance_km

\* C16 witness: the table was built from a row with identical points and
\* from two rows with exchanged points that differ in latitude and in
\* longitude, at a distance other than 0
C16_Witness ==
    /\ Built
    /\ \E a, b, c \in {WithDist[i] : i \in 1..Len(WithDist)} :
          /\ AllKnown(a) /\ AllKnown(b) /\ AllKnown(c)
          /\ a.cust_lat = b.seller_lat /\ a.cust_lng = b.seller_lng
          /\ a.seller_lat = b.cust_lat /\ a.seller_lng = b.cust_lng
          /\ a.cust_lat # a.seller_lat /\ a.cust_lng # a.seller_lng
          /\ a.distance_km # Fin(RInt(0))
          /\ c.cust_lat = c.seller_lat /\ c.cust_lng = c.seller_lng

TrueOrderPct(oid) ==
    LET k == SeqOf({it \in DeliveredItems : it.order_id = oid})
    IN  RDiv(RSum([j \in 1..Len(k) |-> k[j].freight_value]),
             RSum([j \in 1..Len(k) |-> k[j].line_gross]))

TotalGross(oid) ==
    LET k == SeqOf({it \in DeliveredItems : it.order_id = oid})
    IN  RSum([j \in 1..Len(k) |-> k[j].line_gross])

\* a percentage column holds a finite number or NULL, never NaN or infinity
FiniteOrNull(v) == v = NULL \/ v.k = "fin"

\* C21: in every row of fct_freight, freight_pct_line times line_gross is
\* freight_value when line_gross > 0 and freight_pct_line is NULL otherwise;
\* order_freight_pct is NULL when the order's total line_gross is not
\* positive; no percentage is the NaN or infinity a division by zero gives
C21_PercentagesGuarded ==
    Built =>
        \A i \in 1..Len(fct_freight) :
            LET r == fct_freight[i]
            IN  /\ FiniteOrNull(r.freight_pct_line)
                /\ FiniteOrNull(r.order_freight_pct)
                /\ r.line_gross.n > 0 =>
                      /\ r.freight_pct_line # NULL
                      /\ RMul(r.freight_pct_line.v, r.line_gross) = r.freight_value
                /\ r.line_gross.n <= 0 => r.freight_pct_line = NULL
                /\ TotalGross(r.order_id).n <= 0 => r.order_freight_pct = NULL
                /\ TotalGross(r.order_id).n > 0 => r.order_freight_pct # NULL

\* C21 witness: the table was built with a line of zero line_gross whose
\* order has no other line (both percentages NULL) next to a line with both
\* percentages computed
C21_Witness ==
    /\ Built
    /\ \E i, j \in 1..Len(fct_freight) :
          /\ fct_freight[i].line_gross.n = 0
          /\ fct_freight[i].freight_value.n > 0
          /\ fct_freight[i].freight_pct_line = NULL
          /\ fct_freight[i].order_freight_pct = NULL
          /\ fct_freight[j].freight_pct_line # NULL
          /\ fct_freight[j].order_freight_pct # NULL

(***************************************************************************)
(* Properties of the least-squares fit                                     *)
(***************************************************************************)
\* C22: the residuals of every fit ols_fit returns, and of every fit the
\* page shows, sum to zero (their mean is 0)
C22_ResidualsSumToZero ==
    /\ Returned => RSum(ols.res.resid) = RInt(0)
    /\ Fitted => RSum(page.resid) = RInt(0)

\* C22 witness: ols_fit returned and the page shows a fit, each with a
\* nonzero intercept and residuals that are not all zero
C22_Witness ==
    /\ Returned /\ ols.res.beta[1].n # 0
    /\ \E i \in DOMAIN ols.res.resid : ols.res.resid[i].n # 0
    /\ Fitted /\ page.beta[1].n # 0
    /\ \E i \in DOMAIN page.resid : page.resid[i].n # 0

\* the largest r with r * r <= n, for n >= 0
RECURSIVE isqrt(_)
isqrt(n) ==
    IF n < 2 THEN n
    ELSE LET s == 2 * isqrt(n \div 4)
         IN  IF s + 1 > n \div (s + 1) THEN s ELSE s + 1

\* the square root of a rational that is a square of a rational
RSqrt(q) == [n |-> isqrt(q.n), d |-> isqrt(q.d)]

\* a nonzero entry of z, the unit the others are measured in
UnitOf(z) == CHOOSE i \in DOMAIN z : z[i].sg # 0

\* z[i] / |z[UnitOf(z)]|
InUnits(z) ==
    [i \in DOMAIN z |->
        RMul(RInt(z[i].sg), RSqrt(RDiv(z[i].sq, z[UnitOf(z)].sq)))]

\* every entry of z is a rational multiple of the unit
Commensurable(z) ==
    \A i \in DOMAIN z : RSq(InUnits(z)[i]) = RDiv(z[i].sq, z[UnitOf(z)].sq)

\* np.std(z, ddof=2) ** 2, for commensurable z with a nonzero entry
StdSquared(z) ==
    LET r == InUnits(z)
    IN  RMul(z[UnitOf(z)].sq,
             RDiv(SumSqDev(r, RMean(r)), RInt(Len(z) - Ddof)))

\* np.std(z, ddof=2) is 1 and sigma ** 2 is the residual sum of squares
\* about the mean over n - 2
UnitScale(z, resid, sigma) ==
    (sigma.k = "fin" /\ sigma.sg > 0) =>
        /\ Commensurable(z)
        /\ StdSquared(z) = RInt(1)
        /\ RMul(sigma.sq, RInt(Len(resid) - 2)) = SumSqDev(resid, RMean(resid))

\* C23: for every fit with sigma > 0, returned by ols_fit or shown by the
\* page, the standard deviation of z with 2 degrees of freedom subtracted is
\* 1, sigma being the residual standard deviation with divisor n - 2
C23_ZHasUnitScale ==
    /\ Returned => UnitScale(ols.res.z, ols.res.resid, ols.res.sigma)
    /\ Fitted => UnitScale(page.z_resid, page.resid, page.sigma)

\* C23 witness: both fits have sigma > 0, on more than 3 rows, with z
\* entries of differing size
C23_Witness ==
    /\ Returned /\ ols.res.sigma.k = "fin" /\ ols.res.sigma.sg > 0
    /\ Fitted /\ page.sigma.k = "fin" /\ page.sigma.sg > 0
    /\ Len(page.df) > 3
    /\ \E i, j \in DOMAIN page.z_resid :
          page.z_resid[i].sq # page.z_resid[j].sq /\ page.z_resid[i].sg # 0
             /\ page.z_resid[j].sg # 0

\* two finite rows with differing x
TwoPoints ==
    CHOOSE p \in FiniteRows \X FiniteRows : arr.x[p[1]].v # arr.x[p[2]].v

\* slope and intercept of the line through TwoPoints
LineB ==
    RDiv(RSub(arr.y[TwoPoints[2]].v, arr.y[TwoPoints[1]].v),
         RSub(arr.x[TwoPoints[2]].v, arr.x[TwoPoints[1]].v))

LineA == RSub(arr.y[TwoPoints[1]].v, RMul(LineB, arr.x[TwoPoints[1]].v))

\* the input is noise-free: at least 3 finite rows, at least 2 distinct x,
\* and every finite row lies on one line y = a + b * x
NoiseFree ==
    /\ Cardinality(FiniteRows) >= 3
    /\ ~ConstantX
    /\ \A i \in FiniteRows :
          arr.y[i].v = RAdd(LineA, RMul(LineB, arr.x[i].v))

\* the same of the frame the page fitted
FrameTwoPoints ==
    CHOOSE p \in (1..Len(page.df)) \X (1..Len(page.df)) :
        page.df[p[1]].distance_km # page.df[p[2]].distance_km

FrameB ==
    RDiv(RSub(page.df[FrameTwoPoints[2]].freight_pct, page.df[FrameTwoPoints[1]].freight_pct),
         RSub(page.df[FrameTwoPoints[2]].distance_km, page.df[FrameTwoPoints[1]].distance_km))

FrameA ==
    RSub(page.df[FrameTwoPoints[1]].freight_pct,
         RMul(FrameB, page.df[FrameTwoPoints[1]].distance_km))

FrameNoiseFree ==
    /\ Len(page.df) >= 3
    /\ \A i \in 1..Len(page.df) :
          page.df[i].freight_pct = RAdd(FrameA, RMul(FrameB, page.df[i].distance_km))

\* a fit that recovers the line a + b * x exactly
Recovers(beta, resid, r2, sigma, z, a, b) ==
    /\ beta = <<a, b>>
    /\ b.n # 0 => r2 = Fin(RInt(1))
    /\ \A i \in DOMAIN resid : resid[i] = RInt(0)
    /\ sigma = Surd(0, RInt(0))
    /\ \A i \in DOMAIN z : z[i] = Surd(0, RInt(0))

InUnitInterval(f) ==
    f.k = "fin" /\ RLe(RInt(0), f.v) /\ RLe(f.v, RInt(1))

MissingCoordinates == {i \in 1..Len(fct_freight) : fct_freight[i].distance_km = NULL}

\* everything a run of the page tells the user in words: the message of a
\* stop, or the lines of the auto-insights
Told ==
    IF page.out = "stop" THEN {[kind |-> "info", text |-> page.msg]}
    ELSE IF page.out = "fit"
    THEN {page.insight_lines[i] : i \in 1..Len(page.insight_lines)}
    ELSE {}

\* C26 (as claimed): when rows are dropped from a request because their
\* distance cannot be computed, the page reports their number ("N rows
\* excluded - missing coordinates") and still completes the request
C26_ExcludedRowsReported ==
    (controls /\ MissingCoordinates # {}) =>
        /\ \E t \in Told :
              t.kind = "excluded" /\ t.n = Cardinality(MissingCoordinates)
        /\ page.out \in {"stop", "fit"}

(***************************************************************************)
(* The budget of squared z-scores                                          *)
(***************************************************************************)
\* the sum of the squares of the entries of z
SumOfSquares(z) == RSum([i \in 1..Len(z) |-> z[i].sq])

Positive(sigma) == sigma.k = "fin" /\ sigma.sg > 0

\* C28: in every fit over n rows with sigma > 0 the squares of the z-scores
\* sum to n - 2; so the number k of rows the page flags satisfies
\* k * zcut^2 < n - 2, and no row is flagged when n - 2 <= zcut^2
C28_SquaredZSumToNMinusTwo ==
    /\ (Returned /\ Positive(ols.res.sigma)) =>
          SumOfSquares(ols.res.z) = RInt(Len(ols.res.z) - 2)
    /\ (Fitted /\ Positive(page.sigma)) =>
          LET n == Len(page.df)
              k == Cardinality(FlaggedRows)
              t == RSq(widgets.zcut)
          IN  /\ SumOfSquares(page.z_resid) = RInt(n - 2)
              /\ RLt(RMul(RInt(k), t), RInt(n - 2))
              /\ RLe(RInt(n - 2), t) => k = 0

\* C28 witness: the page flags a row, and ols_fit returned with sigma > 0
C28_Witness ==
    /\ Returned /\ Positive(ols.res.sigma)
    /\ Fitted /\ Positive(page.sigma)
    /\ FlaggedRows # {}

(***************************************************************************)
(* The page's inline fit against ols_fit                                   *)
(***************************************************************************)
\* the arrays handed to ols_fit are all finite and are, row by row, the
\* two columns of the frame the page fitted
SameInput ==
    /\ Len(arr.x) = Len(page.df)
    /\ \A i \in 1..Len(arr.x) :
          /\ arr.x[i] = Fin(page.df[i].distance_km)
          /\ arr.y[i] = Fin(page.df[i].freight_pct)

\* C29: on one and the same input of at least 3 finite rows with
\* non-constant x and y (which both accept), the page's inline fit and
\* ols_fit give the same intercept and slope, fitted values, residuals, r2,
\* sigma and z
C29_InlineFitEqualsOlsFit ==
    (Fitted /\ Returned /\ SameInput) =>
        /\ page.beta = ols.res.beta
        /\ page.y_hat = ols.res.y_hat
        /\ page.resid = ols.res.resid
        /\ page.r2 = ols.res.r2
        /\ page.sigma = ols.res.sigma
        /\ page.z_resid = ols.res.z

\* C29 witness: both fitted the same 4 or more rows, with sigma > 0
C29_Witness ==
    /\ Fitted /\ Returned /\ SameInput
    /\ Len(page.df) >= 4
    /\ Positive(page.sigma)

(***************************************************************************)
(* The daily KPI mart                                                      *)
(***************************************************************************)
\* the mart has been created from the raw tables
KpisBuilt == raw.kept /\ table_exists("mrt_kpis_daily_real")

\* no unit price and no freight value in raw order_items is negative
NonNegativeRaw ==
    \A i \in 1..Len(raw.order_items) :
        raw.order_items[i].line_gross.n >= 0 /\ raw.order_items[i].freight_value.n >= 0

\* the order dates on which some order of raw orders is delivered
DeliveredDates == {o.order_date : o \in {x \in raw.orders : x.is_delivered}}

\* the rows of the mart for one kpi_date
KpiRows(d) == {i \in 1..Len(mrt_kpis_daily_real) : mrt_kpis_daily_real[i].kpi_date = d}

\* C27: built from raw data with non-negative prices and freight, every row of
\* mrt_kpis_daily_real has gmv >= 0, aov >= 0, freight_pct_gmv >= 0 or NULL,
\* and on_time_pct between 0 and 1, and the table has exactly one row for each
\* order_date that has a delivered order and no other row
C27_KpiRowsInRange ==
    (KpisBuilt /\ NonNegativeRaw) =>
        /\ \A i \in 1..Len(mrt_kpis_daily_real) :
              LET k == mrt_kpis_daily_real[i]
              IN  /\ k.gmv.n >= 0
                  /\ k.aov # NULL /\ k.aov.k = "fin" /\ k.aov.v.n >= 0
                  /\ k.freight_pct_gmv = NULL
                        \/ (k.freight_pct_gmv.k = "fin" /\ k.freight_pct_gmv.v.n >= 0)
                  /\ k.on_time_pct.n >= 0 /\ RLe(k.on_time_pct, RInt(1))
                  /\ k.kpi_date \in DeliveredDates
        /\ \A d \in DeliveredDates : Cardinality(KpiRows(d)) = 1

\* the mart is built with a day of two delivered orders of which one is on
\* time, a day without revenue and an order date without a delivered order
C27_Witness ==
    /\ KpisBuilt /\ NonNegativeRaw
    /\ \E i \in 1..Len(mrt_kpis_daily_real) :
          /\ mrt_kpis_daily_real[i].orders_delivered = 2
          /\ mrt_kpis_daily_real[i].on_time_pct = Q(1, 2)
          /\ mrt_kpis_daily_real[i].gmv.n > 0
    /\ \E i \in 1..Len(mrt_kpis_daily_real) :
          /\ mrt_kpis_daily_real[i].freight_pct_gmv = NULL
          /\ mrt_kpis_daily_real[i].freight_total.n > 0
    /\ \E o \in raw.orders : o.order_date \notin DeliveredDates
(***************************************************************************)
(* Calls of ensure_demo_db on an empty database                            *)
(***************************************************************************)
\* the real-world marts the pages read
Marts == {"fct_deliveries", "fct_freight", "mrt_kpis_daily_real", "mrt_reviews"}

\* no call is running
Idle == pc = 0

\* C30: between calls of ensure_demo_db on an initially empty database, also
\* after a call that was aborted by an exception, whenever fct_orders can be
\* queried the tables fct_deliveries, fct_freight, mrt_kpis_daily_real and
\* mrt_reviews exist as well
C30_MartsFollowFctOrders ==
    (Idle /\ table_exists("fct_orders")) => \A t \in Marts : table_exists(t)

\* a call made while fct_orders can be queried returns without creating or
\* replacing anything
C30_EarlyReturnCreatesNothing ==
    [][(Idle /\ table_exists("fct_orders")) =>
          (pc' = 0 /\ tables' = tables /\ fct_freight' = fct_freight
              /\ mrt_kpis_daily_real' = mrt_kpis_daily_real)]_vars

\* a call was aborted after fct_orders was created: the page finds no
\* fct_freight, and every later call returns at once
C30_Stuck ==
    /\ Idle /\ table_exists("fct_orders") /\ ~table_exists("fct_freight")
    /\ page = NoTable

\* a call ran to its end: every table of the warehouse exists
C30_Complete == Idle /\ tables = Warehouse /\ controls

\* the tables in the database are those of the first statements, up to some
\* statement
C30_TablesArePrefix == \E m \in 0..Len(Statements) : tables = {Statements[k] : k \in 1..m}
=============================================================================
